---- MODULE Spec2Model ----
(***************************************************************************)
(* Model of storage/tree/node.go: the NodeID type of a Merkle tree, its    *)
(* constructors and its operations (masking, neighbours, siblings,         *)
(* prefix/suffix split, keys and equivalence).                             *)
(*                                                                         *)
(* Byte slices live in a heap (a sequence of byte sequences, a slice being *)
(* the index of its backing array) so that sharing of buffers is visible.  *)
(* Every slice the code creates has cap = len; address 0 is the nil slice. *)
(* A Go function is an operator from the heap and its arguments to a       *)
(* record [heap, panic, val].  64-bit integers are sequences of 8 bytes,   *)
(* most significant first, so that shifts overflow as they do in Go.       *)
(***************************************************************************)
EXTENDS Integers, Sequences, FiniteSets, TLC

\* heap: the byte buffers; n: the NodeID the operations are called on; other: the
\* NodeID passed to Equivalent; pc: "new" before construction, "have" once n
\* is built, "returned" after an operation on n, "joined" after Split's
\* result was put together again, "written" after a write into a buffer,
\* "failed" when the constructor panicked or returned an error; op: the
\* last call and its arguments; ret: what it returned; pre: the heap before it
VARIABLES heap, n, other, pc, op, ret, pre

vars == <<heap, n, other, pc, op, ret, pre>>

(***************************************************************************)
(* Bounds of the model.                                                    *)
(***************************************************************************)
\* longest path, in bytes, of the identifiers built for the slice operations
MaxPathBytes == 2
\* how far below 0 and beyond 8*len(Path) the depth arguments range
DepthSlack == 1

(***************************************************************************)
(* Go arithmetic on int and byte.                                          *)
(***************************************************************************)
\* Go's / truncates toward zero
GoDiv(a, b) == IF a >= 0 THEN a \div b ELSE -((-a) \div b)

\* Go's % has the sign of the dividend
GoMod(a, b) == a - b * GoDiv(a, b)

Pow2(k) == IF k = 0 THEN 1 ELSE IF k = 1 THEN 2 ELSE IF k = 2 THEN 4
           ELSE IF k = 3 THEN 8 ELSE IF k = 4 THEN 16 ELSE IF k = 5 THEN 32
           ELSE IF k = 6 THEN 64 ELSE IF k = 7 THEN 128 ELSE 256

\* bit i (0 = least significant) of the byte b
BitOf(b, i) == (b \div Pow2(i)) % 2

\* a & b on bytes
BitAnd(a, b) ==
    LET t(i) == BitOf(a, i) * BitOf(b, i) * Pow2(i)
    IN  t(0) + t(1) + t(2) + t(3) + t(4) + t(5) + t(6) + t(7)

\* a ^ b on bytes
BitXor(a, b) ==
    LET t(i) == ((BitOf(a, i) + BitOf(b, i)) % 2) * Pow2(i)
    IN  t(0) + t(1) + t(2) + t(3) + t(4) + t(5) + t(6) + t(7)

\* a | b on bytes
BitOr(a, b) ==
    LET t(i) == (IF BitOf(a, i) + BitOf(b, i) > 0 THEN 1 ELSE 0) * Pow2(i)
    IN  t(0) + t(1) + t(2) + t(3) + t(4) + t(5) + t(6) + t(7)

\* byte(x) << uint(k) on a byte: a count that is negative as an int is a huge
\* uint, and a count of 8 or more shifts every bit out
ByteShl(x, k) == IF k < 0 \/ k >= 8 THEN 0 ELSE (x * Pow2(k)) % 256

\* x >> k on a byte
ByteShr(x, k) == IF k < 0 \/ k >= 8 THEN 0 ELSE x \div Pow2(k)

\* the function f on 1..k as a sequence (TLC then holds it as a tuple)
AsSeq(f, k) == SubSeq(f, 1, k)

\* make([]byte, len): len zero bytes
Zeros(len) == IF len <= 0 THEN <<>> ELSE AsSeq([i \in 1..len |-> 0], len)

\* the built-in copy(dst, src): min(len(dst), len(src)) elements
copy(dst, src) ==
    IF Len(dst) = 0 THEN dst
    ELSE AsSeq([i \in 1..Len(dst) |-> IF i <= Len(src) THEN src[i] ELSE dst[i]],
               Len(dst))

(***************************************************************************)
(* The heap.                                                               *)
(***************************************************************************)
\* the bytes of the slice at address a (nil has none)
Bytes(h, a) == IF a = 0 THEN <<>> ELSE h[a]

\* the address make([]byte, len) returns in heap h
NewAddr(h) == Len(h) + 1

\* the heap after make([]byte, len) followed by writes that leave it as bytes
Alloc(h, bytes) == Append(h, bytes)

Panic(h) == [heap |-> h, panic |-> TRUE, val |-> <<>>]

Return(h, v) == [heap |-> h, panic |-> FALSE, val |-> v]

NodeID(path, prefixLenBits) == [Path |-> path, PrefixLenBits |-> prefixLenBits]

hexChars == <<"0", "1", "2", "3", "4", "5", "6", "7",
              "8", "9", "a", "b", "c", "d", "e", "f">>

\* PathLenBits returns 8 * len(path)
PathLenBits(h, id) == Len(Bytes(h, id.Path)) * 8

\* bytesForBits: (numBits + 7) >> 3, an arithmetic shift
bytesForBits(numBits) == (numBits + 7) \div 8

leftmask == <<255, 128, 192, 224, 240, 248, 252, 254>>

(***************************************************************************)
(* Operations of NodeID.                                                   *)
(***************************************************************************)
\* Copy returns a duplicate of NodeID.
Copy(h, id) ==
    LET path == Bytes(h, id.Path)
        p    == copy(Zeros(Len(path)), path)
    IN  Return(Alloc(h, p), NodeID(NewAddr(h), id.PrefixLenBits))

\* Faulty variant of MaskLeft: the bits of the last byte beyond depth are kept.
MaskLeftKeepsByte(h, id, depth) ==
    LET path       == Bytes(h, id.Path)
        r0         == Zeros(Len(path))
        depthBytes == bytesForBits(depth)
        r          == IF depth > 0 THEN copy(r0, SubSeq(path, 1, depthBytes)) ELSE r0
        b          == IF depth < id.PrefixLenBits THEN depth ELSE id.PrefixLenBits
    IN  IF depth > 0 /\ depthBytes > Len(path)
        THEN Panic(h)
        ELSE Return(Alloc(h, r), NodeID(NewAddr(h), b))

\* Faulty variant of MaskLeft: when no significant bit is dropped and the
\* bits beyond are clear already, the receiver itself is returned.
MaskLeftShared(h, id, depth) ==
    LET path       == Bytes(h, id.Path)
        r0         == Zeros(Len(path))
        depthBytes == bytesForBits(depth)
        r1         == copy(r0, SubSeq(path, 1, depthBytes))
        r2         == [r1 EXCEPT ![depthBytes] =
                          BitAnd(r1[depthBytes], leftmask[(depth % 8) + 1])]
        r          == IF depth > 0 THEN r2 ELSE r0
        b          == IF depth < id.PrefixLenBits THEN depth ELSE id.PrefixLenBits
    IN  IF depth > 0 /\ depthBytes > Len(path)
        THEN Panic(h)
        ELSE IF b = id.PrefixLenBits /\ r = path THEN Return(h, id)
        ELSE Return(Alloc(h, r), NodeID(NewAddr(h), b))

\* MaskLeft returns a new copy of NodeID with only the left depth bits set.
\* n.Path[:depthBytes] and r[depthBytes-1] panic when depthBytes > len(n.Path).
MaskLeft(h, id, depth) ==
    LET path       == Bytes(h, id.Path)
        r0         == Zeros(Len(path))
        depthBytes == bytesForBits(depth)
        r1         == copy(r0, SubSeq(path, 1, depthBytes))
        r2         == [r1 EXCEPT ![depthBytes] =
                          BitAnd(r1[depthBytes], leftmask[(depth % 8) + 1])]
        r          == IF depth > 0 THEN r2 ELSE r0
        b          == IF depth < id.PrefixLenBits THEN depth ELSE id.PrefixLenBits
    IN  IF depth > 0 /\ depthBytes > Len(path)
        THEN Panic(h)
        ELSE Return(Alloc(h, r), NodeID(NewAddr(h), b))

\* Faulty variant of Neighbor: the byte of the bit is taken one bit too far.
NeighborNextByte(h, id, depth) ==
    LET m      == MaskLeft(h, id, depth)
        node   == m.val
        height == PathLenBits(m.heap, node) - node.PrefixLenBits
        bIndex == GoDiv(PathLenBits(m.heap, node) - height, 8)
        old    == m.heap[node.Path]
        new    == [old EXCEPT ![bIndex + 1] =
                      BitXor(old[bIndex + 1], ByteShl(1, GoMod(height, 8)))]
    IN  IF m.panic THEN Panic(h)
        ELSE IF bIndex < 0 \/ bIndex >= Len(old) THEN Panic(m.heap)
        ELSE Return([m.heap EXCEPT ![node.Path] = new], node)

\* Neighbor returns a new copy of a node, applying a LeftMask operation and
\* with the bit at PrefixLenBits in the copy flipped.
Neighbor(h, id, depth) ==
    LET m      == MaskLeft(h, id, depth)
        node   == m.val
        height == PathLenBits(m.heap, node) - node.PrefixLenBits
        bIndex == GoDiv(PathLenBits(m.heap, node) - height - 1, 8)
        old    == m.heap[node.Path]
        new    == [old EXCEPT ![bIndex + 1] =
                      BitXor(old[bIndex + 1], ByteShl(1, GoMod(height, 8)))]
    IN  IF m.panic THEN Panic(h)
        ELSE IF bIndex < 0 \/ bIndex >= Len(old) THEN Panic(m.heap)
        ELSE Return([m.heap EXCEPT ![node.Path] = new], node)

\* the loop of Siblings from index height on: sibs[height] = n.Neighbor(depth)
RECURSIVE SiblingsFrom(_, _, _, _)
SiblingsFrom(h, id, height, sibs) ==
    IF height >= id.PrefixLenBits THEN Return(h, sibs)
    ELSE LET depth == id.PrefixLenBits - height
             nb    == Neighbor(h, id, depth)
         IN  IF nb.panic THEN Panic(nb.heap)
             ELSE SiblingsFrom(nb.heap, id, height + 1, Append(sibs, nb.val))

\* Faulty variant of Siblings: the loop starts one level above the node.
SiblingsSkipFirst(h, id) ==
    IF id.PrefixLenBits < 0 THEN Panic(h)
    ELSE SiblingsFrom(h, id, 1, <<>>)

\* Siblings returns the siblings of the given node: the Neighbor of every node
\* on the path up to the root, nodes closest to the leaves first.
\* make([]NodeID, n.PrefixLenBits) panics on a negative length.
Siblings(h, id) ==
    IF id.PrefixLenBits < 0 THEN Panic(h)
    ELSE SiblingsFrom(h, id, 0, <<>>)

\* Prefix returns a copy of NodeID's prefix.
Prefix(h, id, prefixBytes) ==
    LET path == Bytes(h, id.Path)
    IN  IF id.PrefixLenBits = 0 THEN Return(Alloc(h, <<>>), NewAddr(h))
        ELSE IF prefixBytes < 0 \/ prefixBytes > Len(path) THEN Panic(h)
        ELSE Return(Alloc(h, copy(Zeros(prefixBytes), SubSeq(path, 1, prefixBytes))),
                    NewAddr(h))

\* Faulty variant of Equivalent: the last byte is compared without the mask.
EquivalentUnmasked(h, id, o) ==
    LET p          == Bytes(h, id.Path)
        q          == Bytes(h, o.Path)
        depthBytes == GoDiv(id.PrefixLenBits, 8)
    IN  IF id.PrefixLenBits # o.PrefixLenBits THEN Return(h, FALSE)
        ELSE IF depthBytes < 0 \/ depthBytes > Len(p) \/ depthBytes > Len(q)
             THEN Panic(h)
        ELSE IF SubSeq(p, 1, depthBytes) # SubSeq(q, 1, depthBytes)
             THEN Return(h, FALSE)
        ELSE IF GoMod(id.PrefixLenBits, 8) = 0 THEN Return(h, TRUE)
        ELSE IF GoMod(id.PrefixLenBits, 8) < 0 THEN Panic(h)
        ELSE IF depthBytes >= Len(p) \/ depthBytes >= Len(q) THEN Panic(h)
        ELSE Return(h, p[depthBytes + 1] = q[depthBytes + 1])

\* Equivalent returns true iff the other represents the same path prefix as
\* this NodeID.
Equivalent(h, id, o) ==
    LET p          == Bytes(h, id.Path)
        q          == Bytes(h, o.Path)
        depthBytes == GoDiv(id.PrefixLenBits, 8)
        mask       == leftmask[GoMod(id.PrefixLenBits, 8) + 1]
    IN  IF id.PrefixLenBits # o.PrefixLenBits THEN Return(h, FALSE)
        ELSE IF depthBytes < 0 \/ depthBytes > Len(p) \/ depthBytes > Len(q)
             THEN Panic(h)
        ELSE IF SubSeq(p, 1, depthBytes) # SubSeq(q, 1, depthBytes)
             THEN Return(h, FALSE)
        ELSE IF GoMod(id.PrefixLenBits, 8) = 0 THEN Return(h, TRUE)
        ELSE IF GoMod(id.PrefixLenBits, 8) < 0 THEN Panic(h)
        ELSE IF depthBytes >= Len(p) \/ depthBytes >= Len(q) THEN Panic(h)
        ELSE Return(h, BitAnd(p[depthBytes + 1], mask) = BitAnd(q[depthBytes + 1], mask))

\* strconv.Itoa on a non-negative number
RECURSIVE Digits(_)
Digits(x) ==
    IF x < 10 THEN <<hexChars[x + 1]>>
    ELSE Append(Digits(x \div 10), hexChars[(x % 10) + 1])

\* strconv.Itoa
Itoa(x) == IF x < 0 THEN <<"-">> \o Digits(-x) ELSE Digits(x)

\* hex.Encode: two lower-case hexadecimal digits per byte
RECURSIVE HexEncode(_)
HexEncode(bytes) ==
    IF Len(bytes) = 0 THEN <<>>
    ELSE <<hexChars[(bytes[1] \div 16) + 1], hexChars[(bytes[1] % 16) + 1]>>
         \o HexEncode(Tail(bytes))

\* Faulty variant of AsKey: the partial last byte is written without the mask.
AsKeyUnmasked(h, id) ==
    LET path      == Bytes(h, id.Path)
        fullBytes == GoDiv(id.PrefixLenBits, 8)
        bitsLeft  == GoMod(id.PrefixLenBits, 8)
        b1        == Itoa(id.PrefixLenBits) \o <<":">>
        b2        == IF fullBytes > 0
                     THEN b1 \o HexEncode(SubSeq(path, 1, fullBytes)) ELSE b1
        bits      == path[fullBytes + 1]
        b3        == IF bitsLeft > 0
                     THEN b2 \o <<hexChars[ByteShr(bits, 4) + 1],
                                  hexChars[BitAnd(bits, 15) + 1]>>
                     ELSE b2
    IN  IF fullBytes > Len(path) \/ (bitsLeft > 0 /\ fullBytes >= Len(path))
        THEN Panic(h)
        ELSE Return(h, b3)

\* AsKey returns a string identifier for this NodeID suitable for short term
\* use e.g. as a Map key.  The string is a sequence of characters.
AsKey(h, id) ==
    LET path      == Bytes(h, id.Path)
        fullBytes == GoDiv(id.PrefixLenBits, 8)
        bitsLeft  == GoMod(id.PrefixLenBits, 8)
        b1        == Itoa(id.PrefixLenBits) \o <<":">>
        b2        == IF fullBytes > 0
                     THEN b1 \o HexEncode(SubSeq(path, 1, fullBytes)) ELSE b1
        bits      == BitAnd(path[fullBytes + 1], leftmask[bitsLeft + 1])
        b3        == IF bitsLeft > 0
                     THEN b2 \o <<hexChars[ByteShr(bits, 4) + 1],
                                  hexChars[BitAnd(bits, 15) + 1]>>
                     ELSE b2
    IN  IF fullBytes > Len(path) \/ (bitsLeft > 0 /\ fullBytes >= Len(path))
        THEN Panic(h)
        ELSE Return(h, b3)

(***************************************************************************)
(* Suffix is defined in another file of the package: a bit count and the   *)
(* bytes of the path below the prefix.  EmptySuffix is one shared value,   *)
(* whose one zero byte is the first buffer of the heap.                    *)
(***************************************************************************)
NewSuffix(bits, path) == [bits |-> bits, path |-> path]

EmptySuffixAddr == 1

EmptySuffix == NewSuffix(0, EmptySuffixAddr)

\* Faulty variant of Suffix: maskLowBits is b % 8, which is 0 and not 8 when
\* the suffix ends on a byte boundary.
SuffixMaskModulo(h, id, prefixBytes, suffixBits) ==
    LET path        == Bytes(h, id.Path)
        b           == id.PrefixLenBits - prefixBytes * 8
        suffixBytes == bytesForBits(b)
        maskIndex   == (b - 1) \div 8
        maskLowBits == b % 8
        sfx0        == copy(Zeros(suffixBytes),
                            SubSeq(path, prefixBytes + 1, prefixBytes + suffixBytes))
        mask        == ByteShl((ByteShl(1, maskLowBits) + 255) % 256, 8 - maskLowBits)
        sfxPath     == [sfx0 EXCEPT ![maskIndex + 1] = BitAnd(sfx0[maskIndex + 1], mask)]
    IN  IF id.PrefixLenBits = 0 THEN Return(h, EmptySuffix)
        ELSE IF b > suffixBits THEN Panic(h)
        ELSE IF b <= 0 THEN Panic(h)
        ELSE IF prefixBytes < 0 \/ prefixBytes + suffixBytes > Len(path) THEN Panic(h)
        ELSE Return(Alloc(h, sfxPath), NewSuffix(b % 256, NewAddr(h)))

\* Suffix returns a Node's suffix starting at prefixBytes.
\* n.Path[prefixBytes:prefixBytes+suffixBytes] panics outside the buffer; the
\* mask is byte arithmetic: ((0x01 << maskLowBits) - 1) << (8 - maskLowBits).
Suffix(h, id, prefixBytes, suffixBits) ==
    LET path        == Bytes(h, id.Path)
        b           == id.PrefixLenBits - prefixBytes * 8
        suffixBytes == bytesForBits(b)
        maskIndex   == (b - 1) \div 8
        maskLowBits == ((b - 1) % 8) + 1
        sfx0        == copy(Zeros(suffixBytes),
                            SubSeq(path, prefixBytes + 1, prefixBytes + suffixBytes))
        mask        == ByteShl((ByteShl(1, maskLowBits) + 255) % 256, 8 - maskLowBits)
        sfxPath     == [sfx0 EXCEPT ![maskIndex + 1] = BitAnd(sfx0[maskIndex + 1], mask)]
    IN  IF id.PrefixLenBits = 0 THEN Return(h, EmptySuffix)
        ELSE IF b > suffixBits THEN Panic(h)
        ELSE IF b <= 0 THEN Panic(h)
        ELSE IF prefixBytes < 0 \/ prefixBytes + suffixBytes > Len(path) THEN Panic(h)
        ELSE Return(Alloc(h, sfxPath), NewSuffix(b % 256, NewAddr(h)))

\* Split splits a NodeID into a prefix and a suffix at prefixBytes.
Split(h, id, prefixBytes, suffixBits) ==
    LET p == Prefix(h, id, prefixBytes)
        s == Suffix(p.heap, id, prefixBytes, suffixBits)
    IN  IF id.PrefixLenBits = 0
        THEN Return(Alloc(h, <<>>), [prefix |-> NewAddr(h), suffix |-> EmptySuffix])
        ELSE IF p.panic THEN Panic(h)
        ELSE IF s.panic THEN Panic(p.heap)
        ELSE Return(s.heap, [prefix |-> p.val, suffix |-> s.val])

\* NewNodeIDFromPrefixSuffix undoes Split() and returns the NodeID.
\* make panics on a negative length, path[len(prefix):] beyond len(path).
NewNodeIDFromPrefixSuffix(h, prefix, suffix, maxPathBits) ==
    LET pre0  == Bytes(h, prefix)
        len   == GoDiv(maxPathBits, 8)
        path1 == copy(Zeros(len), pre0)
        rest  == copy(SubSeq(path1, Len(pre0) + 1, len), Bytes(h, suffix.path))
        path  == SubSeq(path1, 1, Len(pre0)) \o rest
    IN  IF len < 0 \/ Len(pre0) > len THEN Panic(h)
        ELSE Return(Alloc(h, path),
                    NodeID(NewAddr(h), Len(pre0) * 8 + suffix.bits))

(***************************************************************************)
(* 64-bit integers: 8 bytes, most significant first.  An int64 and the     *)
(* uint64 of the same bits are the same sequence.                          *)
(***************************************************************************)
U64Zero == <<0, 0, 0, 0, 0, 0, 0, 0>>

\* the uint64 whose low bytes are the given ones (most significant first)
U64(lowBytes) == SubSeq(U64Zero, 1, 8 - Len(lowBytes)) \o lowBytes

\* uint64(x) of an int x with |x| < 2^31: two's complement when negative
U64FromInt(x) ==
    LET m == IF x >= 0 THEN x ELSE -x - 1
        b == <<0, 0, 0, 0, (m \div 16777216) % 256, (m \div 65536) % 256,
               (m \div 256) % 256, m % 256>>
    IN  IF x >= 0 THEN b ELSE AsSeq([i \in 1..8 |-> 255 - b[i]], 8)

\* index < 0 on an int64
IsNegative(u) == u[1] >= 128

\* bits.Len8
Len8(b) == IF b >= 128 THEN 8 ELSE IF b >= 64 THEN 7 ELSE IF b >= 32 THEN 6
           ELSE IF b >= 16 THEN 5 ELSE IF b >= 8 THEN 4 ELSE IF b >= 4 THEN 3
           ELSE IF b >= 2 THEN 2 ELSE b

\* bits.Len64: the minimum number of bits required to represent u
Len64(u) ==
    IF u = U64Zero THEN 0
    ELSE LET i == CHOOSE j \in 1..8 : u[j] # 0 /\ \A k \in 1..(j - 1) : u[k] = 0
         IN  8 * (8 - i) + Len8(u[i])

\* u << uint(k) on 64 bits: a count that is negative as an int is a huge uint,
\* and a count of 64 or more shifts every bit out
Shl64(u, k) ==
    LET q      == k \div 8
        r      == k % 8
        get(j) == IF j <= 8 THEN u[j] ELSE 0
    IN  IF k < 0 \/ k >= 64 THEN U64Zero
        ELSE AsSeq([i \in 1..8 |-> ((get(i + q) * Pow2(r)) % 256)
                                   + (get(i + q + 1) \div Pow2(8 - r))], 8)

\* u >> k on a uint64 (and on a non-negative int64)
Shr64(u, k) ==
    LET q      == k \div 8
        r      == k % 8
        get(j) == IF j >= 1 THEN u[j] ELSE 0
    IN  IF k < 0 \/ k >= 64 THEN U64Zero
        ELSE AsSeq([i \in 1..8 |-> (get(i - q) \div Pow2(r))
                                   + ((get(i - q - 1) * Pow2(8 - r)) % 256)], 8)

\* quotient and remainder of u by 10, by long division over the bytes
RECURSIVE DivMod10(_, _, _)
DivMod10(u, quot, rem) ==
    IF Len(u) = 0 THEN [quot |-> quot, rem |-> rem]
    ELSE LET acc == rem * 256 + u[1]
         IN  DivMod10(Tail(u), Append(quot, acc \div 10), acc % 10)

\* the decimal digits fmt prints for %d of a uint64
RECURSIVE FormatUint(_)
FormatUint(u) ==
    LET dm == DivMod10(u, <<>>, 0)
    IN  IF dm.quot = U64Zero THEN <<hexChars[dm.rem + 1]>>
        ELSE Append(FormatUint(dm.quot), hexChars[dm.rem + 1])

(***************************************************************************)
(* Constructors.                                                           *)
(***************************************************************************)
\* NewNodeIDFromHash creates a new NodeID for the given Hash: the identifier
\* keeps the caller's slice.
NewNodeIDFromHash(h, hash) == Return(h, NodeID(hash, Len(Bytes(h, hash)) * 8))

\* NewNodeIDFromPrefix returns a nodeID for a particular node within a subtree.
\* binary.Write gives the 8 bytes of uint64(subIndex), most significant first;
\* subPath.Bytes()[unusedHighBytes:] and path[len(prefix):] panic out of range.
NewNodeIDFromPrefix(h, prefix, depth, index, subDepth, totalDepth) ==
    LET pre0            == Bytes(h, prefix)
        len             == GoDiv(totalDepth, 8)
        path1           == copy(Zeros(len), pre0)
        height          == subDepth - depth
        subIndex        == Shl64(index, height)
        unusedHighBytes == 8 - GoDiv(subDepth, 8)
        rest            == copy(SubSeq(path1, Len(pre0) + 1, len),
                                SubSeq(subIndex, unusedHighBytes + 1, 8))
        path            == SubSeq(path1, 1, Len(pre0)) \o rest
    IN  IF GoMod(totalDepth, 8) # 0 THEN Panic(h)
        ELSE IF GoMod(subDepth, 8) # 0 THEN Panic(h)
        ELSE IF depth < 0 THEN Panic(h)
        ELSE IF len < 0 THEN Panic(h)
        ELSE IF unusedHighBytes < 0 \/ unusedHighBytes > 8 THEN Panic(h)
        ELSE IF Len(pre0) > len THEN Panic(h)
        ELSE Return(Alloc(h, path), NodeID(NewAddr(h), Len(pre0) * 8 + depth))

\* const _S = bits.UintSize / 8 of NewNodeIDFromBigInt, on a 64-bit platform
WordBytes == 8

\* the loop of NewNodeIDFromBigInt at word w (from 1) of iBits and byte j of
\* it, i being the value of the Go variable i before its decrement
RECURSIVE BigIntLoop(_, _, _, _, _)
BigIntLoop(path, iBits, w, j, i) ==
    IF w > Len(iBits) THEN path
    ELSE IF j >= WordBytes THEN BigIntLoop(path, iBits, w + 1, 0, i)
    ELSE IF i - 1 < 0 THEN path
    ELSE BigIntLoop([path EXCEPT ![i] = iBits[w][8 - j]], iBits, w, j + 1, i - 1)

\* NewNodeIDFromBigInt creates a new node for a given depth and index, where
\* the index can exceed a 64-bit range.  iBits is index.Bits(): the words of
\* the magnitude of index, least significant first.
NewNodeIDFromBigInt(h, depth, iBits, totalDepth) ==
    LET len  == GoDiv(totalDepth, 8)
        path == BigIntLoop(Zeros(len), iBits, 1, 0, len)
    IN  IF GoMod(totalDepth, 8) # 0 THEN Panic(h)
        ELSE IF totalDepth = 0 THEN Panic(h)
        ELSE IF len < 0 THEN Panic(h)
        ELSE Return(Alloc(h, path), NodeID(NewAddr(h), depth))

\* the loop of NewNodeIDForTreeCoords, i being the Go index into r.Path
RECURSIVE TreeCoordsLoop(_, _, _)
TreeCoordsLoop(path, uidx, i) ==
    IF ~(uidx # U64Zero /\ i >= 0) THEN path
    ELSE TreeCoordsLoop([path EXCEPT ![i + 1] = uidx[8]], Shr64(uidx, 8), i - 1)

\* Faulty variant of NewNodeIDForTreeCoords: the index is not shifted by depth.
NewNodeIDForTreeCoordsUnshifted(h, depth, index, maxPathBits) ==
    LET bl   == Len64(index)
        len  == GoDiv(maxPathBits, 8)
        path == TreeCoordsLoop(Zeros(len), index, len - 1)
    IN  IF IsNegative(index) \/ depth < 0 \/ bl > maxPathBits - depth
           \/ GoMod(maxPathBits, 8) # 0
        THEN Return(h, [id |-> NodeID(0, 0), err |-> TRUE])
        ELSE Return(Alloc(h, path),
                    [id |-> NodeID(NewAddr(h), maxPathBits - depth), err |-> FALSE])

\* NewNodeIDForTreeCoords creates a new NodeID for a Tree node with a specified
\* depth and index.  val is the pair (NodeID, error).
NewNodeIDForTreeCoords(h, depth, index, maxPathBits) ==
    LET bl   == Len64(index)
        uidx == Shl64(index, depth)
        len  == GoDiv(maxPathBits, 8)
        path == TreeCoordsLoop(Zeros(len), uidx, len - 1)
    IN  IF IsNegative(index) \/ depth < 0 \/ bl > maxPathBits - depth
           \/ GoMod(maxPathBits, 8) # 0
        THEN Return(h, [id |-> NodeID(0, 0), err |-> TRUE])
        ELSE Return(Alloc(h, path),
                    [id |-> NodeID(NewAddr(h), maxPathBits - depth), err |-> FALSE])

\* the loop of CoordString: i = (i << 8) + p for every byte p of the path
RECURSIVE CoordLoop(_, _)
CoordLoop(i, path) ==
    IF Len(path) = 0 THEN i
    ELSE CoordLoop(Tail(i) \o <<path[1]>>, Tail(path))

\* CoordString returns a string representation assuming that the NodeID
\* represents a tree coordinate: fmt.Sprintf("[d:%d, i:%d]", d, i>>d), d being
\* a uint64, so that a shift by a negative int is a shift by a huge count.
CoordString(h, id) ==
    LET d == PathLenBits(h, id) - id.PrefixLenBits
        i == CoordLoop(U64Zero, Bytes(h, id.Path))
    IN  Return(h, <<"[", "d", ":">> \o FormatUint(U64FromInt(d))
                  \o <<",", " ", "i", ":">> \o FormatUint(Shr64(i, d)) \o <<"]">>)

(***************************************************************************)
(* The inputs the calls are made with.                                     *)
(***************************************************************************)
\* byte values of the paths: no bit set, every bit set, and two mixed ones
ByteVals == {0, 95, 171, 255}

\* the sequences over S of lo to hi elements
SeqsOf(S, lo, hi) == UNION {{AsSeq(f, k) : f \in [1..k -> S]} : k \in lo..hi}

\* the depth arguments tried on a path of pathBits bits
DepthsFor(pathBits) == (0 - DepthSlack)..(pathBits + DepthSlack)

\* totalDepth / maxPathBits arguments: every byte-aligned size up to the
\* bound, zero, and one that is no multiple of 8
TotalDepths == {0, 12} \cup {8 * k : k \in 1..MaxPathBytes}

\* index.Bits() of the big.Int arguments: zero, every one-word value with
\* bytes of ByteVals, and a value of two words
BigInts(Vals) == {<<>>, <<U64(<<1, 2>>), U64(<<3>>)>>}
                 \cup {<<U64(b)>> : b \in SeqsOf(Vals, 1, MaxPathBytes)}

\* int64 index arguments of the main specification
SmallIndexes == {U64(<<0>>), U64(<<1>>), U64(<<23>>), U64(<<95>>), U64(<<63, 255>>),
                 U64FromInt(-1)}

\* name: the function called last; depth, prefixBytes, suffixBits: its
\* arguments; target: the buffer a write went to (its place in Handles);
\* treeDepth, index, maxPathBits: the arguments n was built with by
\* NewNodeIDForTreeCoords
NoOp == [name |-> "none", depth |-> 0, prefixBytes |-> 0, suffixBits |-> 0,
         target |-> 0, treeDepth |-> 0, index |-> U64Zero, maxPathBits |-> 0]

Call(name) == [NoOp EXCEPT !.name = name]

NoRet == [panic |-> FALSE, err |-> FALSE, ids |-> <<>>, prefix |-> 0,
          suffix |-> EmptySuffix, str |-> <<>>, bool |-> FALSE]

Init ==
    /\ heap = <<Zeros(1)>>
    /\ n = NodeID(0, 0)
    /\ other = NodeID(0, 0)
    /\ pc = "new"
    /\ op = NoOp
    /\ ret = NoRet
    /\ pre = <<Zeros(1)>>

(***************************************************************************)
(* Calls of the constructors: the result becomes n.                        *)
(***************************************************************************)
\* what a finished constructor call r leaves: n is its NodeID, unless it
\* panicked or returned an error
Constructed(r, id, failed, o) ==
    /\ heap' = r.heap
    /\ pre' = heap
    /\ op' = o
    /\ other' = other
    /\ n' = IF failed THEN NodeID(0, 0) ELSE id
    /\ pc' = IF failed THEN "failed" ELSE "have"
    /\ ret' = [NoRet EXCEPT !.panic = r.panic, !.err = failed /\ ~r.panic,
                            !.ids = IF failed THEN <<>> ELSE <<id>>]

CallFromHash(Vals) ==
    /\ pc = "new"
    /\ \E hash \in SeqsOf(Vals, 0, MaxPathBytes) :
          LET h1 == Alloc(heap, hash)
              r  == NewNodeIDFromHash(h1, NewAddr(heap))
          IN  Constructed(r, r.val, r.panic, Call("NewNodeIDFromHash"))

CallFromBigInt(Ints) ==
    /\ pc = "new"
    /\ \E totalDepth \in TotalDepths, iBits \in Ints :
          \E depth \in DepthsFor(totalDepth) :
             LET r == NewNodeIDFromBigInt(heap, depth, iBits, totalDepth)
             IN  Constructed(r, r.val, r.panic, Call("NewNodeIDFromBigInt"))

CallFromPrefix ==
    /\ pc = "new"
    /\ \E prefix \in SeqsOf(ByteVals, 0, 1), index \in SmallIndexes,
          subDepth \in {4, 8, 72}, totalDepth \in TotalDepths :
          \E depth \in DepthsFor(subDepth) :
             LET h1 == Alloc(heap, prefix)
                 r  == NewNodeIDFromPrefix(h1, NewAddr(heap), depth, index,
                                           subDepth, totalDepth)
             IN  Constructed(r, r.val, r.panic, Call("NewNodeIDFromPrefix"))

CallForTreeCoords(Indexes, Sizes) ==
    /\ pc = "new"
    /\ \E maxPathBits \in Sizes, index \in Indexes :
          \E depth \in DepthsFor(maxPathBits) :
             LET r == NewNodeIDForTreeCoords(heap, depth, index, maxPathBits)
             IN  Constructed(r, r.val.id, r.val.err,
                             [Call("NewNodeIDForTreeCoords") EXCEPT
                                 !.treeDepth = depth, !.index = index,
                                 !.maxPathBits = maxPathBits])

CallFromPrefixSuffix ==
    /\ pc = "new"
    /\ \E prefix \in SeqsOf(ByteVals, 0, 1), path \in SeqsOf({0, 171}, 1, 2),
          bits \in {0, 3, 8, 9}, maxPathBits \in TotalDepths :
          LET h1 == Alloc(heap, prefix)
              h2 == Alloc(h1, path)
              r  == NewNodeIDFromPrefixSuffix(h2, NewAddr(heap),
                                              NewSuffix(bits, NewAddr(h1)), maxPathBits)
          IN  Constructed(r, r.val, r.panic, Call("NewNodeIDFromPrefixSuffix"))

(***************************************************************************)
(* Calls of the operations on n.                                           *)
(***************************************************************************)
\* what a finished call r of an operation leaves
Returned(r, o, result) ==
    /\ pc' = "returned"
    /\ heap' = r.heap
    /\ pre' = heap
    /\ op' = o
    /\ ret' = IF r.panic THEN [NoRet EXCEPT !.panic = TRUE] ELSE result
    /\ UNCHANGED <<n, other>>

CallCopy ==
    /\ pc = "have"
    /\ LET r == Copy(heap, n)
       IN  Returned(r, [op EXCEPT !.name = "Copy"], [NoRet EXCEPT !.ids = <<r.val>>])

\* receiver: which identifiers the specification calls MaskLeft on
CallMaskLeft(receiver) ==
    /\ pc = "have"
    /\ receiver
    /\ \E depth \in DepthsFor(PathLenBits(heap, n)) :
          LET r == MaskLeft(heap, n, depth)
          IN  Returned(r, [op EXCEPT !.name = "MaskLeft", !.depth = depth],
                       [NoRet EXCEPT !.ids = <<r.val>>])

CallNeighbor ==
    /\ pc = "have"
    /\ \E depth \in DepthsFor(PathLenBits(heap, n)) :
          LET r == Neighbor(heap, n, depth)
          IN  Returned(r, [op EXCEPT !.name = "Neighbor", !.depth = depth],
                       [NoRet EXCEPT !.ids = <<r.val>>])

CallSiblings ==
    /\ pc = "have"
    /\ LET r == Siblings(heap, n)
       IN  Returned(r, [op EXCEPT !.name = "Siblings"], [NoRet EXCEPT !.ids = r.val])

\* the prefixBytes arguments tried on n
PrefixBytesFor(id) == 0..Len(Bytes(heap, id.Path))

\* the suffixBits arguments tried on n split at prefixBytes: the number of
\* bits below the prefix, one less and eight more
SuffixBitsFor(id, prefixBytes) ==
    LET b == id.PrefixLenBits - prefixBytes * 8 IN {b - 1, b, b + 8}

CallPrefix ==
    /\ pc = "have"
    /\ \E prefixBytes \in PrefixBytesFor(n) :
          LET r == Prefix(heap, n, prefixBytes)
          IN  Returned(r, [op EXCEPT !.name = "Prefix", !.prefixBytes = prefixBytes],
                       [NoRet EXCEPT !.prefix = r.val])

CallSuffix ==
    /\ pc = "have"
    /\ \E prefixBytes \in PrefixBytesFor(n) :
          \E suffixBits \in SuffixBitsFor(n, prefixBytes) :
             LET r == Suffix(heap, n, prefixBytes, suffixBits)
             IN  Returned(r, [op EXCEPT !.name = "Suffix", !.prefixBytes = prefixBytes,
                                        !.suffixBits = suffixBits],
                          [NoRet EXCEPT !.suffix = r.val])

CallSplit ==
    /\ pc = "have"
    /\ \E prefixBytes \in PrefixBytesFor(n) :
          \E suffixBits \in SuffixBitsFor(n, prefixBytes) :
             LET r == Split(heap, n, prefixBytes, suffixBits)
             IN  Returned(r, [op EXCEPT !.name = "Split", !.prefixBytes = prefixBytes,
                                        !.suffixBits = suffixBits],
                          [NoRet EXCEPT !.prefix = r.val.prefix, !.suffix = r.val.suffix])

\* NewNodeIDFromPrefixSuffix on what Split returned, with maxPathBits the
\* length of the path that was split
CallJoin ==
    /\ pc = "returned"
    /\ op.name = "Split"
    /\ ~ret.panic
    /\ LET r == NewNodeIDFromPrefixSuffix(heap, ret.prefix, ret.suffix,
                                          PathLenBits(heap, n))
       IN  /\ pc' = "joined"
           /\ heap' = r.heap
           /\ pre' = heap
           /\ ret' = IF r.panic THEN [ret EXCEPT !.panic = TRUE]
                     ELSE [ret EXCEPT !.ids = <<r.val>>]
           /\ UNCHANGED <<n, other, op>>

CallEquivalent ==
    /\ pc = "have"
    /\ LET r == Equivalent(heap, n, other)
       IN  Returned(r, [op EXCEPT !.name = "Equivalent"], [NoRet EXCEPT !.bool = r.val])

CallAsKey ==
    /\ pc = "have"
    /\ LET r == AsKey(heap, n)
       IN  Returned(r, [op EXCEPT !.name = "AsKey"], [NoRet EXCEPT !.str = r.val])

CallCoordString ==
    /\ pc = "have"
    /\ LET r == CoordString(heap, n)
       IN  Returned(r, [op EXCEPT !.name = "CoordString"], [NoRet EXCEPT !.str = r.val])

(***************************************************************************)
(* A later write by the caller into one of the buffers it holds.           *)
(***************************************************************************)
RECURSIVE PathsOf(_)
PathsOf(ids) == IF Len(ids) = 0 THEN <<>> ELSE <<ids[1].Path>> \o PathsOf(Tail(ids))

\* the slices the caller holds after a call: n.Path, the Path of every
\* returned identifier, and the returned prefix
Handles == <<n.Path>> \o PathsOf(ret.ids)
           \o (IF ret.prefix = 0 THEN <<>> ELSE <<ret.prefix>>)

Write ==
    /\ pc = "returned"
    /\ ~ret.panic
    /\ \E slot \in 1..Len(Handles) :
          \E idx \in 1..Len(Bytes(heap, Handles[slot])) :
             /\ heap' = [heap EXCEPT ![Handles[slot]][idx] =
                                         BitXor(heap[Handles[slot]][idx], 255)]
             /\ op' = [op EXCEPT !.target = slot]
    /\ pre' = heap
    /\ pc' = "written"
    /\ UNCHANGED <<n, other, ret>>

(***************************************************************************)
(* Spec: identifiers from every constructor, and the operations on them.   *)
(***************************************************************************)
Next ==
    \/ CallFromHash(ByteVals)
    \/ CallFromBigInt(BigInts(ByteVals))
    \/ CallFromPrefix
    \/ CallForTreeCoords(SmallIndexes, TotalDepths)
    \/ CallFromPrefixSuffix
    \/ CallCopy
    \/ CallMaskLeft(TRUE)
    \/ CallNeighbor
    \/ CallSiblings
    \/ CallSplit
    \/ CallJoin

Spec == Init /\ [][Next]_vars

(***************************************************************************)
(* Vocabulary of the properties.                                           *)
(***************************************************************************)
\* the invariant of NodeID: 0 <= PrefixLenBits <= 8 * len(Path)
Valid(h, id) == 0 <= id.PrefixLenBits /\ id.PrefixLenBits <= PathLenBits(h, id)

\* an identifier by value: the bytes of its path and its length in bits
Value(h, id) == [Path |-> Bytes(h, id.Path), PrefixLenBits |-> id.PrefixLenBits]

\* bit i of a path, position 0 being the most significant bit of the first byte
PathBit(bytes, i) == BitOf(bytes[(i \div 8) + 1], 7 - (i % 8))

\* the path with every bit at position k or beyond cleared
ZeroedFrom(bytes, k) ==
    LET byte(j) ==
          LET t(b) == IF 8 * (j - 1) + b < k
                      THEN PathBit(bytes, 8 * (j - 1) + b) * Pow2(7 - b) ELSE 0
          IN  t(0) + t(1) + t(2) + t(3) + t(4) + t(5) + t(6) + t(7)
    IN  IF Len(bytes) = 0 THEN <<>>
        ELSE AsSeq([j \in 1..Len(bytes) |-> byte(j)], Len(bytes))

\* two paths carry the same bits at the positions 0 .. k-1
SameBits(p, q, k) == \A i \in 0..(k - 1) : PathBit(p, i) = PathBit(q, i)

(***************************************************************************)
(* C1. Split followed by NewNodeIDFromPrefixSuffix.                        *)
(***************************************************************************)
\* the number of significant bits below the prefix in the last Split
SplitBits == n.PrefixLenBits - 8 * op.prefixBytes

\* the case C1 is about: a valid n, a prefix within the significant bits and
\* a suffix capacity that holds the rest
SplitCase ==
    /\ op.name = "Split"
    /\ Valid(heap, n)
    /\ op.prefixBytes >= 0
    /\ n.PrefixLenBits >= 8 * op.prefixBytes
    /\ op.suffixBits >= SplitBits

\* C1 as stated: whenever PrefixLenBits >= 8*prefixBytes and suffixBits holds
\* the rest, Split does not panic and NewNodeIDFromPrefixSuffix gives back an
\* identifier with the PrefixLenBits and the very Path bytes of n.
C1_RoundTripExact ==
    /\ (pc = "returned" /\ SplitCase) => ~ret.panic
    /\ (pc = "joined" /\ SplitCase) =>
          /\ ~ret.panic
          /\ Value(heap, ret.ids[1]) = Value(heap, n)

\* C1 amended: when moreover PrefixLenBits is 0 or exceeds 8*prefixBytes (and
\* the bits below the prefix fit the suffix's byte-sized count), Split does
\* not panic and NewNodeIDFromPrefixSuffix gives back the PrefixLenBits of n
\* and the Path of n with every bit from position PrefixLenBits on cleared.
C1_RoundTripSignificant ==
    LET case == /\ SplitCase
                /\ (n.PrefixLenBits = 0 \/ n.PrefixLenBits > 8 * op.prefixBytes)
                /\ SplitBits <= 255
    IN  /\ (pc = "returned" /\ case) => ~ret.panic
        /\ (pc = "joined" /\ case) =>
              /\ ~ret.panic
              /\ ret.ids[1].PrefixLenBits = n.PrefixLenBits
              /\ Bytes(heap, ret.ids[1].Path)
                    = ZeroedFrom(Bytes(heap, n.Path), n.PrefixLenBits)

\* a round trip of an identifier with a partial last byte, bits set beyond
\* PrefixLenBits and a non-empty prefix
C1_Witness ==
    /\ pc = "joined"
    /\ SplitCase
    /\ ~ret.panic
    /\ op.prefixBytes = 1
    /\ n.PrefixLenBits > 8
    /\ n.PrefixLenBits % 8 # 0
    /\ Bytes(heap, n.Path) # ZeroedFrom(Bytes(heap, n.Path), n.PrefixLenBits)

(***************************************************************************)
(* C2. The invariant of the identifiers returned.                          *)
(***************************************************************************)
\* C2: every NodeID a constructor returns without failure, and every NodeID
\* Copy, MaskLeft, Neighbor, Siblings and NewNodeIDFromPrefixSuffix return for
\* a valid receiver, has 0 <= PrefixLenBits <= 8 * len(Path).
C2_ReturnedValid ==
    /\ pc = "have" => Valid(heap, n)
    /\ (pc \in {"returned", "joined"} /\ Valid(heap, n) /\ ~ret.panic) =>
          \A i \in 1..Len(ret.ids) : Valid(heap, ret.ids[i])

(***************************************************************************)
(* C5. Neighbor at a fixed depth.                                          *)
(***************************************************************************)
\* the case C5 is about: an identifier (a value satisfying the invariant of
\* NodeID) and a depth between 1 and its PrefixLenBits
NeighborCase ==
    /\ pc = "returned"
    /\ op.name = "Neighbor"
    /\ Valid(heap, n)
    /\ 1 <= op.depth
    /\ op.depth <= n.PrefixLenBits

\* C5: for every identifier n and every depth in 1..PrefixLenBits, the
\* neighbour at depth of n.Neighbor(depth) has the Path and PrefixLenBits of
\* n.MaskLeft(depth), and n.Neighbor(depth) differs from n.MaskLeft(depth) in
\* exactly one bit of the path, the one at position depth-1 from the most
\* significant bit.
C5_NeighborInvolution ==
    NeighborCase =>
       /\ ~ret.panic
       /\ LET nb    == ret.ids[1]
              again == Neighbor(heap, nb, op.depth)
              mk    == MaskLeft(heap, n, op.depth)
              p     == Bytes(heap, nb.Path)
              q     == Bytes(mk.heap, mk.val.Path)
          IN  /\ ~again.panic
              /\ ~mk.panic
              /\ Value(again.heap, again.val) = Value(mk.heap, mk.val)
              /\ Len(p) = Len(q)
              /\ nb.PrefixLenBits = mk.val.PrefixLenBits
              /\ \A i \in 0..(8 * Len(p) - 1) :
                    (PathBit(p, i) # PathBit(q, i)) <=> (i = op.depth - 1)

\* a neighbour taken strictly above the node, inside the second byte
C5_Witness ==
    /\ NeighborCase
    /\ ~ret.panic
    /\ op.depth > 8
    /\ op.depth % 8 # 0
    /\ op.depth < n.PrefixLenBits

(***************************************************************************)
(* C6. Siblings.                                                           *)
(***************************************************************************)
SiblingsCase ==
    /\ pc = "returned"
    /\ op.name = "Siblings"
    /\ Valid(heap, n)

\* C6: for every identifier n, Siblings returns exactly PrefixLenBits
\* identifiers; the one at index h (from 0) is n.Neighbor(PrefixLenBits - h)
\* and has PrefixLenBits - h significant bits; and the first one agrees with
\* n on every significant bit but the last, position PrefixLenBits-1, which
\* is flipped.
C6_Siblings ==
    SiblingsCase =>
       /\ ~ret.panic
       /\ Len(ret.ids) = n.PrefixLenBits
       /\ \A k \in 1..Len(ret.ids) :
             LET nb == Neighbor(pre, n, n.PrefixLenBits - (k - 1))
             IN  /\ ~nb.panic
                 /\ Value(heap, ret.ids[k]) = Value(nb.heap, nb.val)
                 /\ ret.ids[k].PrefixLenBits = n.PrefixLenBits - (k - 1)
       /\ n.PrefixLenBits >= 1 =>
             LET p == Bytes(heap, ret.ids[1].Path)
                 q == Bytes(heap, n.Path)
             IN  /\ Len(p) = Len(q)
                 /\ ret.ids[1].PrefixLenBits = n.PrefixLenBits
                 /\ SameBits(p, q, n.PrefixLenBits - 1)
                 /\ PathBit(p, n.PrefixLenBits - 1) # PathBit(q, n.PrefixLenBits - 1)

\* the siblings of a node whose last significant bit is inside the second byte
C6_Witness ==
    /\ SiblingsCase
    /\ ~ret.panic
    /\ n.PrefixLenBits > 8
    /\ n.PrefixLenBits % 8 # 0
    /\ Len(ret.ids) = n.PrefixLenBits

(***************************************************************************)
(* C7. MaskLeft twice, and MaskLeft at the full length.                    *)
(***************************************************************************)
\* MaskLeft(d) of what the last call MaskLeft(d) returned is the same value
MaskLeftIdempotent ==
    (/\ pc = "returned"
     /\ op.name = "MaskLeft"
     /\ 0 <= op.depth
     /\ op.depth <= PathLenBits(heap, n)) =>
       /\ ~ret.panic
       /\ LET again == MaskLeft(heap, ret.ids[1], op.depth)
          IN  /\ ~again.panic
              /\ Value(again.heap, again.val) = Value(heap, ret.ids[1])

\* the last call was n.MaskLeft(n.PrefixLenBits) on an identifier
MaskLeftFullCase ==
    /\ pc = "returned"
    /\ op.name = "MaskLeft"
    /\ Valid(heap, n)
    /\ op.depth = n.PrefixLenBits

\* C7 as stated: MaskLeft(d) twice is MaskLeft(d) for 0 <= d <= 8*len(Path),
\* and n.MaskLeft(n.PrefixLenBits) has the Path and the PrefixLenBits of n.
C7_MaskLeftNoOp ==
    /\ MaskLeftIdempotent
    /\ MaskLeftFullCase =>
          /\ ~ret.panic
          /\ Value(heap, ret.ids[1]) = Value(heap, n)

\* C7 amended: MaskLeft(d) twice is MaskLeft(d) for 0 <= d <= 8*len(Path),
\* and n.MaskLeft(n.PrefixLenBits) has the PrefixLenBits of n and the Path of
\* n with every bit from position PrefixLenBits on cleared: the Path of n
\* only if n has no bit set there.
C7_MaskLeftClearsPadding ==
    /\ MaskLeftIdempotent
    /\ MaskLeftFullCase =>
          /\ ~ret.panic
          /\ ret.ids[1].PrefixLenBits = n.PrefixLenBits
          /\ Bytes(heap, ret.ids[1].Path)
                = ZeroedFrom(Bytes(heap, n.Path), n.PrefixLenBits)

\* MaskLeft at the full length of an identifier with bits set beyond it
C7_Witness ==
    /\ MaskLeftFullCase
    /\ ~ret.panic
    /\ n.PrefixLenBits % 8 # 0
    /\ Bytes(heap, n.Path) # ZeroedFrom(Bytes(heap, n.Path), n.PrefixLenBits)

(***************************************************************************)
(* SpecFrame: the operations that return buffers, and later writes by the  *)
(* caller into the buffers it holds.                                       *)
(***************************************************************************)
FrameVals == {0, 171}

NextFrame ==
    \/ CallFromHash(FrameVals)
    \/ CallFromBigInt(BigInts(FrameVals))
    \/ CallCopy
    \/ CallMaskLeft(TRUE)
    \/ CallNeighbor
    \/ CallSiblings
    \/ CallPrefix
    \/ CallSuffix
    \/ CallSplit
    \/ Write

SpecFrame == Init /\ [][NextFrame]_vars

\* C9: a call of Copy, MaskLeft, Neighbor, Siblings, Prefix, Suffix or Split
\* leaves n.Path and n.PrefixLenBits as they were, and a later write into the
\* buffer of n, of a returned identifier or of a returned prefix changes no
\* other of these buffers.
C9_NoSharing ==
    [][/\ pc' = "returned" =>
             /\ n' = n
             /\ Bytes(heap', n.Path) = Bytes(heap, n.Path)
       /\ pc' = "written" =>
             \A slot \in 1..Len(Handles) :
                slot # op'.target =>
                   Bytes(heap', Handles[slot]) = Bytes(heap, Handles[slot])]_vars

\* a write into the buffer of n after Neighbor flipped a bit of its result,
\* and a write into one of several siblings
C9_Witness ==
    /\ pc = "written"
    /\ \/ op.name = "Neighbor" /\ op.target = 1 /\ op.depth = n.PrefixLenBits
       \/ op.name = "Siblings" /\ op.target = 3 /\ Len(ret.ids) > 3

(***************************************************************************)
(* SpecEquiv: pairs of identifiers, for Equivalent and AsKey.              *)
(***************************************************************************)
\* byte values of the paths compared: no bit set, alternating bits, every bit
PairVals == {0, 171, 255}

\* the path with bit i (from the most significant) flipped
FlipBit(bytes, i) ==
    [bytes EXCEPT ![(i \div 8) + 1] = BitXor(bytes[(i \div 8) + 1], Pow2(7 - (i % 8)))]

\* the paths compared with a path: itself, every path one bit away, the
\* path with one more byte, and the path without its last byte
Variants(bytes) ==
    {bytes} \cup {FlipBit(bytes, i) : i \in 0..(8 * Len(bytes) - 1)}
            \cup {bytes \o <<v>> : v \in PairVals}
            \cup {SubSeq(bytes, 1, Len(bytes) - 1)}

\* n is built by NewNodeIDFromBigInt with a depth within its path; other is
\* NodeID{Path: q, PrefixLenBits: e} for a path q near that of n and a length
\* e within q and at most one away from that of n
CallPair ==
    /\ pc = "new"
    /\ \E k \in 1..MaxPathBytes :
          \E low \in SeqsOf(PairVals, k, k), depth \in 0..(8 * k) :
             LET r == NewNodeIDFromBigInt(heap, depth, <<U64(low)>>, 8 * k)
             IN  \E q \in Variants(r.heap[r.val.Path]) :
                    \E e \in {depth - 1, depth, depth + 1} \cap 0..(8 * Len(q)) :
                       /\ heap' = Alloc(r.heap, q)
                       /\ n' = r.val
                       /\ other' = NodeID(NewAddr(r.heap), e)
    /\ pre' = heap
    /\ pc' = "have"
    /\ op' = Call("NewNodeIDFromBigInt")
    /\ ret' = NoRet

NextEquiv ==
    \/ CallPair
    \/ CallEquivalent
    \/ CallAsKey

SpecEquiv == Init /\ [][NextEquiv]_vars

\* n and other have the same PrefixLenBits and the same bits at the
\* positions 0 .. PrefixLenBits-1
SamePrefix ==
    /\ n.PrefixLenBits = other.PrefixLenBits
    /\ SameBits(Bytes(heap, n.Path), Bytes(heap, other.Path), n.PrefixLenBits)

\* the heap with bit i of the path of id flipped
WithFlip(id, i) == [heap EXCEPT ![id.Path] = FlipBit(heap[id.Path], i)]

\* C3: for valid a and b, a.Equivalent(b) is true exactly when they have the
\* same PrefixLenBits and the same bits at the positions 0..PrefixLenBits-1;
\* Equivalent is reflexive and symmetric, and flipping a bit at a position
\* PrefixLenBits or beyond of either path does not change its result.
C3_Equivalent ==
    (pc = "returned" /\ op.name = "Equivalent" /\ Valid(heap, n) /\ Valid(heap, other)) =>
       /\ ~ret.panic
       /\ ret.bool <=> SamePrefix
       /\ Equivalent(heap, n, n).val
       /\ Equivalent(heap, other, other).val
       /\ Equivalent(heap, other, n).val = ret.bool
       /\ \A i \in n.PrefixLenBits..(PathLenBits(heap, n) - 1) :
             Equivalent(WithFlip(n, i), n, other).val = ret.bool
       /\ \A i \in other.PrefixLenBits..(PathLenBits(heap, other) - 1) :
             Equivalent(WithFlip(other, i), n, other).val = ret.bool

\* two identifiers that are equivalent although their paths differ, the
\* last significant bit being inside a byte
C3_Witness ==
    /\ pc = "returned"
    /\ op.name = "Equivalent"
    /\ ret.bool
    /\ n.PrefixLenBits % 8 # 0
    /\ n.PrefixLenBits > 8
    /\ Bytes(heap, n.Path) # Bytes(heap, other.Path)

\* C4: for valid a and b, a.AsKey() = b.AsKey() exactly when they have the
\* same PrefixLenBits and the same bits at the positions 0..PrefixLenBits-1,
\* which is exactly when a.Equivalent(b).
C4_AsKeyFaithful ==
    (pc = "returned" /\ op.name = "AsKey" /\ Valid(heap, n) /\ Valid(heap, other)) =>
       /\ ~ret.panic
       /\ LET k2 == AsKey(heap, other)
          IN  /\ ~k2.panic
              /\ (ret.str = k2.val) <=> SamePrefix
              /\ (ret.str = k2.val) <=> Equivalent(heap, n, other).val

\* equal keys of two identifiers whose paths differ, with a partial last byte
C4_Witness ==
    /\ pc = "returned"
    /\ op.name = "AsKey"
    /\ ~ret.panic
    /\ ret.str = AsKey(heap, other).val
    /\ n.PrefixLenBits % 8 # 0
    /\ n.PrefixLenBits > 8
    /\ Bytes(heap, n.Path) # Bytes(heap, other.Path)

(***************************************************************************)
(* SpecCoords: identifiers of tree coordinates, their CoordString, and     *)
(* MaskLeft on the leaves.                                                 *)
(***************************************************************************)
\* maxPathBits arguments: one and two bytes, the width of an int64, beyond it
CoordSizes == {8, 16, 64, 72}

\* index arguments: 0, 1, 19, 95, 16383, 2^32 + 1, 2^62 + 5, 2^63 - 1, -1
CoordIndexes ==
    {U64(<<0>>), U64(<<1>>), U64(<<19>>), U64(<<95>>), U64(<<63, 255>>),
     U64(<<1, 0, 0, 0, 1>>), U64(<<64, 0, 0, 0, 0, 0, 0, 5>>),
     U64(<<127, 255, 255, 255, 255, 255, 255, 255>>), U64FromInt(-1)}

NextCoords ==
    \/ CallForTreeCoords(CoordIndexes, CoordSizes)
    \/ CallCoordString
    \/ CallMaskLeft(op.treeDepth = 0)

SpecCoords == Init /\ [][NextCoords]_vars

\* the arguments n was to be built with are those C8 and C10 are about
CoordsInRange ==
    /\ op.maxPathBits > 0
    /\ op.maxPathBits % 8 = 0
    /\ op.treeDepth >= 0
    /\ ~IsNegative(op.index)
    /\ Len64(op.index) <= op.maxPathBits - op.treeDepth

\* "[d:<depth>, i:<index>]"
CoordText(depth, index) ==
    <<"[", "d", ":">> \o Itoa(depth) \o <<",", " ", "i", ":">>
    \o FormatUint(index) \o <<"]">>

\* C8: for every maxPathBits that is a positive multiple of 8, also beyond
\* 64, every depth >= 0 and every index >= 0 of at most maxPathBits - depth
\* bits, NewNodeIDForTreeCoords succeeds and CoordString of its result is
\* "[d:<depth>, i:<index>]" for the depth and index passed in.
C8_CoordRoundTrip ==
    /\ (op.name = "NewNodeIDForTreeCoords" /\ CoordsInRange) => pc = "have"
    /\ (pc = "returned" /\ op.name = "CoordString" /\ CoordsInRange) =>
          /\ ~ret.panic
          /\ ret.str = CoordText(op.treeDepth, op.index)

\* C10: for maxPathBits in 8..64, every leaf index i that is built and every
\* d in 0..maxPathBits, NewNodeIDForTreeCoords(d, i >> d, maxPathBits)
\* succeeds and has the Path and PrefixLenBits of
\* NewNodeIDForTreeCoords(0, i, maxPathBits).MaskLeft(maxPathBits - d).
C10_AncestorIsMaskedLeaf ==
    LET d == op.maxPathBits - op.depth
    IN  (/\ pc = "returned"
         /\ op.name = "MaskLeft"
         /\ op.treeDepth = 0
         /\ CoordsInRange
         /\ op.maxPathBits <= 64
         /\ 0 <= d
         /\ d <= op.maxPathBits) =>
           /\ ~ret.panic
           /\ LET anc == NewNodeIDForTreeCoords(heap, d, Shr64(op.index, d),
                                                op.maxPathBits)
              IN  /\ ~anc.val.err
                  /\ Value(anc.heap, anc.val.id) = Value(heap, ret.ids[1])

\* the ancestor two levels above a leaf with bits set in the two lowest
\* positions, in a tree of 64 levels
C10_Witness ==
    /\ pc = "returned"
    /\ op.name = "MaskLeft"
    /\ op.treeDepth = 0
    /\ CoordsInRange
    /\ op.maxPathBits = 64
    /\ op.depth = 62
    /\ ~ret.panic
    /\ Bytes(heap, n.Path)[8] % 4 = 3

====
